---------------------------- MODULE Spec2Model ----------------------------
(***************************************************************************)
(* External scanner of tree-sitter-procfile (src/scanner.c).               *)
(*                                                                         *)
(* The scanner keeps two fields between calls (in_multiline_block,         *)
(* block_indent).  One scan call reads the input through the lexer cursor  *)
(* (lookahead / advance / skip / mark_end / get_column / eof) and either   *)
(* returns a token kind or reports no match.  Positions are 1-based        *)
(* indices into the input; position Len(input)+1 is end of input.          *)
(***************************************************************************)
EXTENDS Integers, Sequences, FiniteSets

VARIABLES input, pos, scanner, buffer, last, nIndent, nDedent, allOffered,
          restores

vars == <<input, pos, scanner, buffer, last, nIndent, nDedent, allOffered,
          restores>>

---------------------------------------------------------------------------
(* Bounds of the model *)

(* longest input of Spec *)
MaxLen == 3

(* longest input of ScanSpec *)
MaxScanLen == 4

(* longest input of KindSpec *)
MaxKindLen == 3

(* longest input of LexSpec *)
MaxLexLen == 3

(* how often the engine restores a checkpoint in one run *)
MaxRestores == 1

(* longest buffer handed to deserialize in CodecSpec *)
MaxBufLen == 6

(* longest input of IndentSpec *)
MaxIndentLen == 7

---------------------------------------------------------------------------
(* Token kinds, enum TokenType *)

Kinds == {"NEWLINE", "INDENT", "DEDENT", "COMMAND_TEXT",
          "MULTILINE_COMMAND_TEXT", "LINE_CONTINUATION", "OPTION_KEY",
          "BARE_GLOB"}

(* lookahead value at end of input *)
NUL == "NUL"

(* one byte of the serialization buffer *)
BYTE == 256

(* sizeof(uint32_t), the number of bytes memcpy moves *)
SizeofU32 == 4

---------------------------------------------------------------------------
(* Character classifiers.  Characters are one-character strings; letters   *)
(* are represented by "a" and "B", digits by "1".                          *)

Letters == {"a", "B"}

Digits == {"1"}

is_space(c) == c = " " \/ c = "\t"

(* Mutant of is_option_key_char: digits are left out. *)
is_option_key_char_NoDigits(c) == c \in Letters \/ c = "_"

is_option_key_char(c) == c \in Letters \/ c \in Digits \/ c = "_"

is_option_key_start(c) == c \in Letters \/ c = "_"

is_glob_char(c) == c \in {"*", "?", "[", "]", "{", "}"}

(* Mutant of is_bare_glob_char: the colon is not excluded. *)
is_bare_glob_char_WithColon(c) ==
    c # " " /\ c # "\t" /\ c # "\n" /\ c # "!" /\ c # NUL

is_bare_glob_char(c) ==
    c # " " /\ c # "\t" /\ c # "\n" /\ c # ":" /\ c # "!" /\ c # NUL

---------------------------------------------------------------------------
(* The lexer cursor of one call: cur is the read position, start the token *)
(* start (moved by skip), end the marked token end (0 while unmarked), sym *)
(* the result_symbol.                                                      *)

NewLexer(p) == [cur |-> p, start |-> p, end |-> 0, sym |-> "NONE"]

lookahead(inp, L) == IF L.cur <= Len(inp) THEN inp[L.cur] ELSE NUL

eof(inp, L) == L.cur > Len(inp)

advance(inp, L) ==
    IF L.cur > Len(inp) THEN L ELSE [L EXCEPT !.cur = @ + 1]

skip(inp, L) ==
    IF L.cur > Len(inp) THEN L
    ELSE [L EXCEPT !.cur = L.cur + 1, !.start = L.cur + 1]

mark_end(L) == [L EXCEPT !.end = L.cur]

RECURSIVE ColumnOf(_, _)
ColumnOf(inp, p) ==
    IF p = 1 THEN 0
    ELSE IF inp[p - 1] = "\n" THEN 0
    ELSE 1 + ColumnOf(inp, p - 1)

get_column(inp, L) == ColumnOf(inp, L.cur)

(* while (is_space(lexer->lookahead)) advance(lexer); *)
RECURSIVE AdvanceSpaces(_, _)
AdvanceSpaces(inp, L) ==
    IF is_space(lookahead(inp, L)) THEN AdvanceSpaces(inp, advance(inp, L))
    ELSE L

(* while (is_space(lexer->lookahead)) skip(lexer); *)
RECURSIVE SkipSpaces(_, _)
SkipSpaces(inp, L) ==
    IF is_space(lookahead(inp, L)) THEN SkipSpaces(inp, skip(inp, L))
    ELSE L

(* uint32_t indent = 0; while (is_space(...)) { indent++; skip(lexer); }    *)
(* The counter is 32 bits wide; it would wrap only on a line of 2^32       *)
(* spaces, far beyond the inputs of this model, so it is not reduced.      *)
RECURSIVE CountIndent(_, _, _)
CountIndent(inp, L, indent) ==
    IF is_space(lookahead(inp, L))
    THEN CountIndent(inp, skip(inp, L), indent + 1)
    ELSE [L |-> L, indent |-> indent]


---------------------------------------------------------------------------
(* Sub-scanners.  Each returns [ok, L]: the boolean it returns and the     *)
(* lexer cursor it leaves behind (nothing is rewound on failure).          *)

scan_line_continuation(inp, L) ==
    IF lookahead(inp, L) # "\\" THEN [ok |-> FALSE, L |-> L]
    ELSE LET L2 == AdvanceSpaces(inp, advance(inp, L))
         IN  IF lookahead(inp, L2) = "\n"
             THEN LET L4 == AdvanceSpaces(inp, advance(inp, L2))
                  IN  [ok |-> TRUE,
                       L |-> [L4 EXCEPT !.sym = "LINE_CONTINUATION"]]
             ELSE [ok |-> FALSE, L |-> L2]

(* Mutant of scan_newline: the spaces after the newline are taken too. *)
scan_newline_TakesSpaces(inp, L) ==
    IF lookahead(inp, L) # "\n" THEN [ok |-> FALSE, L |-> L]
    ELSE [ok |-> TRUE,
          L |-> mark_end(AdvanceSpaces(inp,
                    advance(inp, [L EXCEPT !.sym = "NEWLINE"])))]

scan_newline(inp, L) ==
    IF lookahead(inp, L) # "\n" THEN [ok |-> FALSE, L |-> L]
    ELSE [ok |-> TRUE,
          L |-> mark_end(advance(inp, [L EXCEPT !.sym = "NEWLINE"]))]

(* Mutant of scan_command_text: the end is marked after the continuation  *)
(* backslash instead of before it.                                         *)
RECURSIVE CommandTextLoop_MarkAfter(_, _, _)
CommandTextLoop_MarkAfter(inp, L, has_content) ==
    IF lookahead(inp, L) # "\n" /\ ~eof(inp, L)
    THEN IF lookahead(inp, L) = "\\"
         THEN LET L3 == AdvanceSpaces(inp, mark_end(advance(inp, L)))
              IN  IF lookahead(inp, L3) = "\n"
                  THEN [ok |-> has_content,
                        L |-> [L3 EXCEPT !.sym = "COMMAND_TEXT"]]
                  ELSE CommandTextLoop_MarkAfter(inp, L3, TRUE)
         ELSE CommandTextLoop_MarkAfter(inp, advance(inp, L), TRUE)
    ELSE IF has_content
         THEN [ok |-> TRUE,
               L |-> [mark_end(L) EXCEPT !.sym = "COMMAND_TEXT"]]
         ELSE [ok |-> FALSE, L |-> L]

scan_command_text_MarkAfter(inp, L) ==
    CommandTextLoop_MarkAfter(inp, L, FALSE)

(* the while loop of scan_command_text with its has_content flag *)
RECURSIVE CommandTextLoop(_, _, _)
CommandTextLoop(inp, L, has_content) ==
    IF lookahead(inp, L) # "\n" /\ ~eof(inp, L)
    THEN IF lookahead(inp, L) = "\\"
         THEN LET L3 == AdvanceSpaces(inp, advance(inp, mark_end(L)))
              IN  IF lookahead(inp, L3) = "\n"
                  THEN [ok |-> has_content,
                        L |-> [L3 EXCEPT !.sym = "COMMAND_TEXT"]]
                  ELSE CommandTextLoop(inp, L3, TRUE)
         ELSE CommandTextLoop(inp, advance(inp, L), TRUE)
    ELSE IF has_content
         THEN [ok |-> TRUE,
               L |-> [mark_end(L) EXCEPT !.sym = "COMMAND_TEXT"]]
         ELSE [ok |-> FALSE, L |-> L]

scan_command_text(inp, L) == CommandTextLoop(inp, L, FALSE)

(* the while loop of scan_multiline_command_text *)
RECURSIVE MultilineLoop(_, _, _)
MultilineLoop(inp, L, has_content) ==
    IF lookahead(inp, L) # "\n" /\ ~eof(inp, L)
    THEN MultilineLoop(inp, advance(inp, L), TRUE)
    ELSE IF has_content
         THEN [ok |-> TRUE,
               L |-> [mark_end(L) EXCEPT !.sym = "MULTILINE_COMMAND_TEXT"]]
         ELSE [ok |-> FALSE, L |-> L]

scan_multiline_command_text(inp, L) == MultilineLoop(inp, L, FALSE)

(* while (is_option_key_char(lexer->lookahead)) advance(lexer); *)
RECURSIVE AdvanceKeyChars(_, _)
AdvanceKeyChars(inp, L) ==
    IF is_option_key_char(lookahead(inp, L))
    THEN AdvanceKeyChars(inp, advance(inp, L))
    ELSE L

(* while (is_bare_glob_char(lexer->lookahead) && !lexer->eof(lexer))       *)
(*   advance(lexer);                                                       *)
RECURSIVE AdvanceGlobChars(_, _)
AdvanceGlobChars(inp, L) ==
    IF is_bare_glob_char(lookahead(inp, L)) /\ ~eof(inp, L)
    THEN AdvanceGlobChars(inp, advance(inp, L))
    ELSE L

(* the while loop of scan_bare_glob: g carries has_content, has_glob_char  *)
(* and is_simple_ident                                                     *)
RECURSIVE BareGlobLoop(_, _, _)
BareGlobLoop(inp, L, g) ==
    IF is_bare_glob_char(lookahead(inp, L)) /\ ~eof(inp, L)
    THEN LET c == lookahead(inp, L)
             isGlob == is_glob_char(c) \/ c = "/"
             notIdent == ~is_option_key_char(c) /\ c # "-"
         IN  BareGlobLoop(inp, advance(inp, L),
                 [has_content |-> TRUE,
                  has_glob_char |-> g.has_glob_char \/ isGlob,
                  is_simple_ident |->
                      g.is_simple_ident /\ ~isGlob /\ ~notIdent])
    ELSE [L |-> L, g |-> g]

scan_bare_glob(inp, L) ==
    IF \/ is_space(lookahead(inp, L))
       \/ lookahead(inp, L) = ":"
       \/ lookahead(inp, L) = "\n"
       \/ eof(inp, L)
    THEN [ok |-> FALSE, L |-> L]
    ELSE LET r == BareGlobLoop(inp, L,
                      [has_content |-> FALSE, has_glob_char |-> FALSE,
                       is_simple_ident |->
                           is_option_key_start(lookahead(inp, L))])
         IN  IF ~r.g.has_content THEN [ok |-> FALSE, L |-> r.L]
             ELSE IF r.g.is_simple_ident /\ lookahead(inp, r.L) = "="
             THEN [ok |-> FALSE, L |-> r.L]
             ELSE [ok |-> TRUE,
                   L |-> [mark_end(r.L) EXCEPT !.sym = "BARE_GLOB"]]

---------------------------------------------------------------------------
(* The blocks of tree_sitter_procfile_external_scanner_scan, in order.     *)
(* sc is the Scanner payload, valid the set of kinds whose valid_symbols   *)
(* entry is true.                                                          *)

NoBlock == [in_multiline_block |-> FALSE, block_indent |-> 0]

(* "Handle line continuation first" *)
ScanLineContinuation(inp, L, valid) ==
    IF "LINE_CONTINUATION" \in valid /\ lookahead(inp, L) = "\\"
    THEN scan_line_continuation(inp, mark_end(L))
    ELSE [ok |-> FALSE, L |-> L]

(* Mutant of ScanIndentDedent: the DEDENT test does not look for the       *)
(* newline of a blank line.                                                *)
ScanIndentDedent_BlankLineDedents(inp, L, sc, valid) ==
    IF get_column(inp, L) # 0 THEN [ok |-> FALSE, L |-> L, sc |-> sc]
    ELSE
      LET tryDedent == "DEDENT" \in valid /\ sc.in_multiline_block
          d == IF tryDedent THEN CountIndent(inp, L, 0)
               ELSE [L |-> L, indent |-> 0]
      IN
      IF /\ tryDedent
         /\ \/ eof(inp, d.L)
            \/ d.indent < sc.block_indent
      THEN [ok |-> TRUE, L |-> [d.L EXCEPT !.sym = "DEDENT"], sc |-> NoBlock]
      ELSE
        LET tryIndent == "INDENT" \in valid /\ ~sc.in_multiline_block
            i == IF tryIndent THEN CountIndent(inp, d.L, 0)
                 ELSE [L |-> d.L, indent |-> 0]
        IN
        IF /\ tryIndent
           /\ i.indent > 0
           /\ lookahead(inp, i.L) # "\n"
           /\ ~eof(inp, i.L)
        THEN [ok |-> TRUE, L |-> [i.L EXCEPT !.sym = "INDENT"],
              sc |-> [in_multiline_block |-> TRUE, block_indent |-> i.indent]]
        ELSE [ok |-> FALSE, L |-> i.L, sc |-> sc]

(* Mutant of ScanIndentDedent: DEDENT clears in_multiline_block but leaves *)
(* block_indent as it was.                                                 *)
ScanIndentDedent_KeepsIndent(inp, L, sc, valid) ==
    IF get_column(inp, L) # 0 THEN [ok |-> FALSE, L |-> L, sc |-> sc]
    ELSE
      LET tryDedent == "DEDENT" \in valid /\ sc.in_multiline_block
          d == IF tryDedent THEN CountIndent(inp, L, 0)
               ELSE [L |-> L, indent |-> 0]
      IN
      IF /\ tryDedent
         /\ \/ eof(inp, d.L)
            \/ /\ lookahead(inp, d.L) # "\n"
               /\ d.indent < sc.block_indent
      THEN [ok |-> TRUE, L |-> [d.L EXCEPT !.sym = "DEDENT"],
            sc |-> [sc EXCEPT !.in_multiline_block = FALSE]]
      ELSE
        LET tryIndent == "INDENT" \in valid /\ ~sc.in_multiline_block
            i == IF tryIndent THEN CountIndent(inp, d.L, 0)
                 ELSE [L |-> d.L, indent |-> 0]
        IN
        IF /\ tryIndent
           /\ i.indent > 0
           /\ lookahead(inp, i.L) # "\n"
           /\ ~eof(inp, i.L)
        THEN [ok |-> TRUE, L |-> [i.L EXCEPT !.sym = "INDENT"],
              sc |-> [in_multiline_block |-> TRUE, block_indent |-> i.indent]]
        ELSE [ok |-> FALSE, L |-> i.L, sc |-> sc]

(* Mutant of ScanIndentDedent: a line without leading whitespace opens a   *)
(* block too.                                                              *)
ScanIndentDedent_ZeroIndentOpens(inp, L, sc, valid) ==
    IF get_column(inp, L) # 0 THEN [ok |-> FALSE, L |-> L, sc |-> sc]
    ELSE
      LET tryDedent == "DEDENT" \in valid /\ sc.in_multiline_block
          d == IF tryDedent THEN CountIndent(inp, L, 0)
               ELSE [L |-> L, indent |-> 0]
      IN
      IF /\ tryDedent
         /\ \/ eof(inp, d.L)
            \/ /\ lookahead(inp, d.L) # "\n"
               /\ d.indent < sc.block_indent
      THEN [ok |-> TRUE, L |-> [d.L EXCEPT !.sym = "DEDENT"], sc |-> NoBlock]
      ELSE
        LET tryIndent == "INDENT" \in valid /\ ~sc.in_multiline_block
            i == IF tryIndent THEN CountIndent(inp, d.L, 0)
                 ELSE [L |-> d.L, indent |-> 0]
        IN
        IF /\ tryIndent
           /\ lookahead(inp, i.L) # "\n"
           /\ ~eof(inp, i.L)
        THEN [ok |-> TRUE, L |-> [i.L EXCEPT !.sym = "INDENT"],
              sc |-> [in_multiline_block |-> TRUE, block_indent |-> i.indent]]
        ELSE [ok |-> FALSE, L |-> i.L, sc |-> sc]

(* Mutant of ScanIndentDedent: INDENT is tried while a block is open.      *)
ScanIndentDedent_Nests(inp, L, sc, valid) ==
    IF get_column(inp, L) # 0 THEN [ok |-> FALSE, L |-> L, sc |-> sc]
    ELSE
      LET tryDedent == "DEDENT" \in valid /\ sc.in_multiline_block
          d == IF tryDedent THEN CountIndent(inp, L, 0)
               ELSE [L |-> L, indent |-> 0]
      IN
      IF /\ tryDedent
         /\ \/ eof(inp, d.L)
            \/ /\ lookahead(inp, d.L) # "\n"
               /\ d.indent < sc.block_indent
      THEN [ok |-> TRUE, L |-> [d.L EXCEPT !.sym = "DEDENT"], sc |-> NoBlock]
      ELSE
        LET tryIndent == "INDENT" \in valid
            i == IF tryIndent THEN CountIndent(inp, d.L, 0)
                 ELSE [L |-> d.L, indent |-> 0]
        IN
        IF /\ tryIndent
           /\ i.indent > 0
           /\ lookahead(inp, i.L) # "\n"
           /\ ~eof(inp, i.L)
        THEN [ok |-> TRUE, L |-> [i.L EXCEPT !.sym = "INDENT"],
              sc |-> [in_multiline_block |-> TRUE, block_indent |-> i.indent]]
        ELSE [ok |-> FALSE, L |-> i.L, sc |-> sc]

(* "At start of line (column 0), check for indent/dedent" *)
ScanIndentDedent(inp, L, sc, valid) ==
    IF get_column(inp, L) # 0 THEN [ok |-> FALSE, L |-> L, sc |-> sc]
    ELSE
      LET tryDedent == "DEDENT" \in valid /\ sc.in_multiline_block
          d == IF tryDedent THEN CountIndent(inp, L, 0)
               ELSE [L |-> L, indent |-> 0]
      IN
      IF /\ tryDedent
         /\ \/ eof(inp, d.L)
            \/ /\ lookahead(inp, d.L) # "\n"
               /\ d.indent < sc.block_indent
      THEN [ok |-> TRUE, L |-> [d.L EXCEPT !.sym = "DEDENT"], sc |-> NoBlock]
      ELSE
        LET tryIndent == "INDENT" \in valid /\ ~sc.in_multiline_block
            i == IF tryIndent THEN CountIndent(inp, d.L, 0)
                 ELSE [L |-> d.L, indent |-> 0]
        IN
        IF /\ tryIndent
           /\ i.indent > 0
           /\ lookahead(inp, i.L) # "\n"
           /\ ~eof(inp, i.L)
        THEN [ok |-> TRUE, L |-> [i.L EXCEPT !.sym = "INDENT"],
              sc |-> [in_multiline_block |-> TRUE, block_indent |-> i.indent]]
        ELSE [ok |-> FALSE, L |-> i.L, sc |-> sc]

(* Mutant of ScanOptionKeyOrBareGlob: an identifier followed by "=" is     *)
(* emitted as OPTION_KEY without consulting valid_symbols[OPTION_KEY].     *)
ScanOptionKeyOrBareGlob_KeyUnchecked(inp, L, valid) ==
    IF "OPTION_KEY" \in valid \/ "BARE_GLOB" \in valid
    THEN
      LET L1 == SkipSpaces(inp, L) IN
      IF is_option_key_start(lookahead(inp, L1))
      THEN
        LET L2 == AdvanceKeyChars(inp, L1) IN
        IF lookahead(inp, L2) = "="
        THEN [ok |-> TRUE, L |-> [mark_end(L2) EXCEPT !.sym = "OPTION_KEY"]]
        ELSE IF "BARE_GLOB" \in valid
        THEN [ok |-> TRUE,
              L |-> [mark_end(AdvanceGlobChars(inp, L2))
                        EXCEPT !.sym = "BARE_GLOB"]]
        ELSE [ok |-> FALSE, L |-> L2]
      ELSE IF "BARE_GLOB" \in valid
      THEN scan_bare_glob(inp, L1)
      ELSE [ok |-> FALSE, L |-> L1]
    ELSE [ok |-> FALSE, L |-> L]

(* "Handle option key and bare glob together" *)
ScanOptionKeyOrBareGlob(inp, L, valid) ==
    IF "OPTION_KEY" \in valid \/ "BARE_GLOB" \in valid
    THEN
      LET L1 == SkipSpaces(inp, L) IN
      IF is_option_key_start(lookahead(inp, L1))
      THEN
        LET L2 == AdvanceKeyChars(inp, L1) IN
        IF lookahead(inp, L2) = "=" /\ "OPTION_KEY" \in valid
        THEN [ok |-> TRUE, L |-> [mark_end(L2) EXCEPT !.sym = "OPTION_KEY"]]
        ELSE IF "BARE_GLOB" \in valid
        THEN [ok |-> TRUE,
              L |-> [mark_end(AdvanceGlobChars(inp, L2))
                        EXCEPT !.sym = "BARE_GLOB"]]
        ELSE [ok |-> FALSE, L |-> L2]
      ELSE IF "BARE_GLOB" \in valid
      THEN scan_bare_glob(inp, L1)
      ELSE [ok |-> FALSE, L |-> L1]
    ELSE [ok |-> FALSE, L |-> L]

(* "Handle command text (inline command after :)".  returned tells whether *)
(* the block executed its return statement, ok what it returned.           *)
ScanCommandText(inp, L, valid) ==
    IF "COMMAND_TEXT" \in valid
    THEN LET L1 == SkipSpaces(inp, L) IN
         IF lookahead(inp, L1) # "\n" /\ ~eof(inp, L1)
         THEN LET r == scan_command_text(inp, L1)
              IN  [returned |-> TRUE, ok |-> r.ok, L |-> r.L]
         ELSE [returned |-> FALSE, ok |-> FALSE, L |-> L1]
    ELSE [returned |-> FALSE, ok |-> FALSE, L |-> L]

(* "Handle multiline command text (inside block)" *)
ScanMultilineCommandText(inp, L, valid) ==
    IF "MULTILINE_COMMAND_TEXT" \in valid
    THEN LET L1 == SkipSpaces(inp, L) IN
         IF lookahead(inp, L1) # "\n" /\ ~eof(inp, L1)
         THEN LET r == scan_multiline_command_text(inp, L1)
              IN  [returned |-> TRUE, ok |-> r.ok, L |-> r.L]
         ELSE [returned |-> FALSE, ok |-> FALSE, L |-> L1]
    ELSE [returned |-> FALSE, ok |-> FALSE, L |-> L]

(* The span the engine takes from the lexer when scan returns true: up to  *)
(* the marked end, or up to the cursor when nothing was marked; skipped    *)
(* characters lie before the span.                                         *)
TokenOf(ret, L, sc) ==
    LET e == IF L.end = 0 THEN L.cur ELSE L.end
        b == IF L.start > e THEN e ELSE L.start
    IN  [ret |-> ret, sym |-> IF ret THEN L.sym ELSE "NONE",
         tokStart |-> b, tokEnd |-> e, cur |-> L.cur, scanner |-> sc]

(* One call of scan at position p with payload sc *)
tree_sitter_procfile_external_scanner_scan(inp, p, sc, valid) ==
    LET s1 == ScanLineContinuation(inp, NewLexer(p), valid) IN
    IF s1.ok THEN TokenOf(TRUE, s1.L, sc)
    ELSE IF "NEWLINE" \in valid /\ lookahead(inp, s1.L) = "\n"
    THEN LET s2 == scan_newline(inp, s1.L) IN TokenOf(s2.ok, s2.L, sc)
    ELSE
      LET s3 == ScanIndentDedent(inp, s1.L, sc, valid) IN
      IF s3.ok THEN TokenOf(TRUE, s3.L, s3.sc)
      ELSE
        LET s4 == ScanOptionKeyOrBareGlob(inp, s3.L, valid) IN
        IF s4.ok THEN TokenOf(TRUE, s4.L, s3.sc)
        ELSE
          LET s5 == ScanCommandText(inp, s4.L, valid) IN
          IF s5.returned THEN TokenOf(s5.ok, s5.L, s3.sc)
          ELSE
            LET s6 == ScanMultilineCommandText(inp, s5.L, valid) IN
            IF s6.returned THEN TokenOf(s6.ok, s6.L, s3.sc)
            ELSE TokenOf(FALSE, s6.L, s3.sc)

---------------------------------------------------------------------------
(* Persistent-state codec.  The buffer is a sequence of bytes; memcpy      *)
(* stores block_indent in host byte order, least significant byte first.   *)

RECURSIVE BytesOf(_, _)
BytesOf(n, k) ==
    IF k = 0 THEN <<>> ELSE <<n % BYTE>> \o BytesOf(n \div BYTE, k - 1)

RECURSIVE WordOf(_)
WordOf(bytes) ==
    IF bytes = <<>> THEN 0 ELSE Head(bytes) + BYTE * WordOf(Tail(bytes))

tree_sitter_procfile_external_scanner_serialize(sc) ==
    <<IF sc.in_multiline_block THEN 1 ELSE 0>>
        \o BytesOf(sc.block_indent, SizeofU32)

(* Mutant of deserialize: a buffer of exactly the fixed length is taken    *)
(* for a short one.                                                        *)
deserialize_LengthOffByOne(buf, length) ==
    IF length > 1 + SizeofU32
    THEN [in_multiline_block |-> buf[1] # 0,
          block_indent |-> WordOf(SubSeq(buf, 2, 1 + SizeofU32))]
    ELSE NoBlock

(* Mutant of deserialize: a short buffer still has its first byte read as  *)
(* the block flag.                                                         *)
deserialize_ShortKeepsFlag(buf, length) ==
    IF length >= 1 + SizeofU32
    THEN [in_multiline_block |-> buf[1] # 0,
          block_indent |-> WordOf(SubSeq(buf, 2, 1 + SizeofU32))]
    ELSE [in_multiline_block |-> length >= 1 /\ buf[1] # 0,
          block_indent |-> 0]

tree_sitter_procfile_external_scanner_deserialize(buf, length) ==
    IF length >= 1 + SizeofU32
    THEN [in_multiline_block |-> buf[1] # 0,
          block_indent |-> WordOf(SubSeq(buf, 2, 1 + SizeofU32))]
    ELSE NoBlock

(* calloc(1, sizeof(Scanner)) *)
tree_sitter_procfile_external_scanner_create == NoBlock

---------------------------------------------------------------------------
(* State machine.  last records the most recent call; nIndent and nDedent  *)
(* count the INDENT and DEDENT tokens emitted; allOffered tells whether    *)
(* every scan call so far was given every kind as valid; restores counts   *)
(* the deserialize calls.                                                  *)

(* The characters of the inputs of each specification: line structure    *)
(* only; line structure and continuation; one character that reaches each  *)
(* of the eight kinds; the characters the option-key / bare-glob block     *)
(* tells apart.                                                            *)
Alphabet == {" ", "\n", "a"}

ScanAlphabet == {" ", "\n", "a", "\\"}

KindAlphabet == {" ", "\n", "a", "\\", "="}

LexAlphabet == {"a", "1", "=", "-", "*", ":", " ", "\\"}

SeqsUpTo(S, n) == UNION {[1..k -> S] : k \in 0..n}

NoCall == [op |-> "none", pos |-> 0, pre |-> NoBlock, ret |-> FALSE,
           sym |-> "NONE", tokStart |-> 0, tokEnd |-> 0]

InitWith(inputs) ==
    /\ input \in inputs
    /\ pos = 1
    /\ scanner = tree_sitter_procfile_external_scanner_create
    /\ buffer = <<>>
    /\ last = NoCall
    /\ nIndent = 0
    /\ nDedent = 0
    /\ allOffered = TRUE
    /\ restores = 0

Init == InitWith(SeqsUpTo(Alphabet, MaxLen))

ScanInit == InitWith(SeqsUpTo(ScanAlphabet, MaxScanLen))

KindInit == InitWith(SeqsUpTo(KindAlphabet, MaxKindLen))

LexInit == InitWith(SeqsUpTo(LexAlphabet, MaxLexLen))

(* The engine calls scan at pos with some set of valid kinds and, on a     *)
(* match, continues at the token end.  The outcomes of the call are        *)
(* collected over every valid set; all tells whether every kind was valid. *)
Scan ==
    \E c \in {[r |-> tree_sitter_procfile_external_scanner_scan(
                        input, pos, scanner, valid),
               all |-> valid = Kinds] : valid \in SUBSET Kinds} :
        /\ pos' = IF c.r.ret THEN c.r.tokEnd ELSE pos
        /\ scanner' = c.r.scanner
        /\ last' = [op |-> "scan", pos |-> pos, pre |-> scanner,
                    ret |-> c.r.ret, sym |-> c.r.sym,
                    tokStart |-> c.r.tokStart, tokEnd |-> c.r.tokEnd]
        /\ nIndent' = nIndent + (IF c.r.sym = "INDENT" THEN 1 ELSE 0)
        /\ nDedent' = nDedent + (IF c.r.sym = "DEDENT" THEN 1 ELSE 0)
        /\ allOffered' = (allOffered /\ c.all)
        /\ UNCHANGED <<input, buffer, restores>>

(* The engine checkpoints the payload *)
Serialize ==
    /\ buffer' = tree_sitter_procfile_external_scanner_serialize(scanner)
    /\ last' = [NoCall EXCEPT !.op = "serialize", !.pos = pos,
                              !.pre = scanner]
    /\ UNCHANGED <<input, pos, scanner, nIndent, nDedent, allOffered,
                   restores>>

(* The engine restores the payload from a buffer serialize produced *)
Deserialize ==
    /\ buffer # <<>>
    /\ restores < MaxRestores
    /\ restores' = restores + 1
    /\ scanner' = tree_sitter_procfile_external_scanner_deserialize(
                      buffer, Len(buffer))
    /\ last' = [NoCall EXCEPT !.op = "deserialize", !.pos = pos,
                              !.pre = scanner]
    /\ UNCHANGED <<input, pos, buffer, nIndent, nDedent, allOffered>>

Next == Scan \/ Serialize \/ Deserialize

Spec == Init /\ [][Next]_vars

(* Scanning only, no checkpoint restored *)
ScanSpec == ScanInit /\ [][Scan]_vars

KindSpec == KindInit /\ [][Scan]_vars

LexSpec == LexInit /\ [][Scan]_vars

(* Scanning of indented blocks: lines of spaces, tabs and content, the     *)
(* engine offering the kinds the grammar expects around a block.           *)
IndentAlphabet == {" ", "\t", "\n", "a"}

BlockKinds == {"NEWLINE", "INDENT", "DEDENT", "MULTILINE_COMMAND_TEXT"}

IndentInit == InitWith(SeqsUpTo(IndentAlphabet, MaxIndentLen))

ScanInBlock ==
    \E r \in {tree_sitter_procfile_external_scanner_scan(
                  input, pos, scanner, valid) : valid \in SUBSET BlockKinds} :
        /\ pos' = IF r.ret THEN r.tokEnd ELSE pos
        /\ scanner' = r.scanner
        /\ last' = [op |-> "scan", pos |-> pos, pre |-> scanner,
                    ret |-> r.ret, sym |-> r.sym,
                    tokStart |-> r.tokStart, tokEnd |-> r.tokEnd]
        /\ nIndent' = nIndent + (IF r.sym = "INDENT" THEN 1 ELSE 0)
        /\ nDedent' = nDedent + (IF r.sym = "DEDENT" THEN 1 ELSE 0)
        /\ allOffered' = FALSE
        /\ UNCHANGED <<input, buffer, restores>>

IndentSpec == IndentInit /\ [][ScanInBlock]_vars

(* The codec on its own: deserialize is handed any byte buffer, whether or *)
(* not serialize produced it.                                              *)
ByteValues == {0, 1, 2}

CodecInit ==
    /\ input = <<>>
    /\ pos = 1
    /\ scanner = tree_sitter_procfile_external_scanner_create
    /\ buffer \in SeqsUpTo(ByteValues, MaxBufLen)
    /\ last = NoCall
    /\ nIndent = 0
    /\ nDedent = 0
    /\ allOffered = TRUE
    /\ restores = 0

(* deserialize called with the buffer as it is and its length *)
DeserializeAny ==
    /\ scanner' = tree_sitter_procfile_external_scanner_deserialize(
                      buffer, Len(buffer))
    /\ last' = [NoCall EXCEPT !.op = "deserialize", !.pos = pos,
                              !.pre = scanner]
    /\ UNCHANGED <<input, pos, buffer, nIndent, nDedent, allOffered,
                   restores>>

(* only a prefix of the buffer is left to hand over *)
Truncate ==
    \E n \in 0 .. (Len(buffer) - 1) :
        /\ buffer' = SubSeq(buffer, 1, n)
        /\ last' = [NoCall EXCEPT !.op = "truncate", !.pos = pos,
                                  !.pre = scanner]
        /\ UNCHANGED <<input, pos, scanner, nIndent, nDedent, allOffered,
                       restores>>

CodecNext == DeserializeAny \/ Serialize \/ Truncate

CodecSpec == CodecInit /\ [][CodecNext]_vars

---------------------------------------------------------------------------
(* Properties.  CallAt(valid) is the outcome of a scan call made in the    *)
(* current state with the given valid set; LastCallWas(valid) says that    *)
(* the call recorded in last is the call with that valid set.              *)

CallAt(valid) ==
    tree_sitter_procfile_external_scanner_scan(input, pos, scanner, valid)

LastCallWas(valid) ==
    /\ last.op = "scan"
    /\ LET r == tree_sitter_procfile_external_scanner_scan(
                    input, last.pos, last.pre, valid)
       IN  /\ r.ret = last.ret
           /\ r.sym = last.sym
           /\ r.tokStart = last.tokStart
           /\ r.tokEnd = last.tokEnd
           /\ r.scanner = scanner
           /\ pos = (IF r.ret THEN r.tokEnd ELSE last.pos)

(* C1: a scan call that returns a match reports a kind that is a member of *)
(* the valid set given to that call, whatever the state, the input, the    *)
(* cursor position and the valid set.                                      *)
C1_EmittedKindIsValid ==
    \A valid \in SUBSET Kinds :
        CallAt(valid).ret => CallAt(valid).sym \in valid

(* C1 witness: a call whose line-continuation probe failed on a backslash  *)
(* and whose command-text sub-scanner then matched.                        *)
C1_Witness ==
    /\ last.op = "scan" /\ last.ret /\ last.sym = "COMMAND_TEXT"
    /\ input[last.pos] = "\\"
    /\ LastCallWas({"LINE_CONTINUATION", "COMMAND_TEXT"})

(* C2: in every reachable state block_indent > 0 when a block is open and  *)
(* block_indent = 0 when none is.                                          *)
C2_StateInvariant ==
    /\ scanner.in_multiline_block => scanner.block_indent > 0
    /\ ~scanner.in_multiline_block => scanner.block_indent = 0

(* C2 witness: a deserialize call that reopened a block over a closed one. *)
C2_Witness ==
    /\ last.op = "deserialize"
    /\ ~last.pre.in_multiline_block
    /\ scanner.in_multiline_block
    /\ nDedent > 0

(* C3: once end of input has been reported (a call at end of input that    *)
(* returns no match), as many DEDENT as INDENT tokens have been emitted.   *)
(* Stated for runs in which every call was offered every kind.             *)
C3_IndentDedentPaired ==
    (allOffered /\ last.op = "scan" /\ ~last.ret /\ last.pos > Len(input))
        => nIndent = nDedent

(* C4: a call at end of input with a block open and DEDENT valid emits     *)
(* DEDENT and closes the block, at whatever column the input ends.         *)
C4_ForcedDedentAtEof ==
    \A valid \in SUBSET Kinds :
        (/\ "DEDENT" \in valid
         /\ LastCallWas(valid)
         /\ last.pos > Len(input)
         /\ last.pre.in_multiline_block)
            => /\ last.ret
               /\ last.sym = "DEDENT"
               /\ scanner = NoBlock

(* C10: deserialize applied to the buffer and length serialize produces    *)
(* for the current state restores exactly that state, and a serialize call *)
(* leaves the state as it was.                                             *)
C10_CodecRoundTrip ==
    /\ LET buf == tree_sitter_procfile_external_scanner_serialize(scanner)
       IN  tree_sitter_procfile_external_scanner_deserialize(buf, Len(buf))
               = scanner
    /\ last.op = "serialize" =>
           /\ scanner = last.pre
           /\ tree_sitter_procfile_external_scanner_deserialize(
                  buffer, Len(buffer)) = last.pre

(* C10 witness: a deserialize call that restored an open block of indent 1 *)
(* from the buffer after the block had been closed.                        *)
C10_Witness ==
    /\ last.op = "deserialize"
    /\ last.pre = NoBlock
    /\ scanner = [in_multiline_block |-> TRUE, block_indent |-> 1]
    /\ buffer = <<1, 1, 0, 0, 0>>

(* C11: deserialize of a buffer shorter than the fixed layout of           *)
(* 1 + sizeof(uint32_t) bytes (lengths 0 to 4) leaves the state            *)
(* {in_multiline_block: false, block_indent: 0}, whatever the state was    *)
(* before the call.                                                        *)
C11_ShortBufferResets ==
    /\ Len(buffer) < 1 + SizeofU32 =>
           tree_sitter_procfile_external_scanner_deserialize(
               buffer, Len(buffer)) = NoBlock
    /\ (last.op = "deserialize" /\ Len(buffer) < 1 + SizeofU32) =>
           scanner = NoBlock

(* C11 witness: a deserialize call with a 4-byte buffer whose first byte   *)
(* is set, made while a block of indent 1 was open, which closed it.       *)
C11_Witness ==
    /\ last.op = "deserialize"
    /\ last.pre = [in_multiline_block |-> TRUE, block_indent |-> 1]
    /\ buffer = <<1, 1, 0, 0>>
    /\ scanner = NoBlock

(* the buffer is what serialize produces for a state in which block_indent *)
(* is positive exactly when a block is open                                *)
EncodesValidState(buf) ==
    /\ Len(buf) = 1 + SizeofU32
    /\ buf[1] \in {0, 1}
    /\ (buf[1] = 1) <=> (WordOf(SubSeq(buf, 2, 1 + SizeofU32)) > 0)

(* C12: deserialize of a buffer that is not the encoding of a valid state  *)
(* resets the scanner to {in_multiline_block: false, block_indent: 0}.     *)
C12_ForeignBufferResets ==
    (last.op = "deserialize" /\ ~EncodesValidState(buffer))
        => scanner = NoBlock

---------------------------------------------------------------------------
(* Shapes of the input text the claims speak of, read off the input alone. *)

Blank == {" ", "\t"}

(* first index at or after p that holds no space or tab *)
RECURSIVE BlankRunEnd(_, _)
BlankRunEnd(inp, p) ==
    IF p <= Len(inp) /\ inp[p] \in Blank THEN BlankRunEnd(inp, p + 1) ELSE p

(* index of the newline that ends the physical line of p, or Len+1 *)
RECURSIVE LineEnd(_, _)
LineEnd(inp, p) ==
    IF p <= Len(inp) /\ inp[p] # "\n" THEN LineEnd(inp, p + 1) ELSE p

LineStart(inp, p) == p - ColumnOf(inp, p)

(* the physical line of p holds spaces and tabs only *)
BlankLineAt(inp, p) ==
    \A i \in LineStart(inp, p) .. (LineEnd(inp, p) - 1) : inp[i] \in Blank

(* p holds a backslash followed by spaces/tabs and then a newline *)
ContinuationAt(inp, p) ==
    /\ p <= Len(inp)
    /\ inp[p] = "\\"
    /\ BlankRunEnd(inp, p + 1) <= Len(inp)
    /\ inp[BlankRunEnd(inp, p + 1)] = "\n"

(* the first character of the following line that is no space or tab *)
ContinuationEnd(inp, p) == BlankRunEnd(inp, BlankRunEnd(inp, p + 1) + 1)

IdentStart == {"a", "B", "_"}

IdentChar == {"a", "B", "_", "1"}

RECURSIVE IdentRunEnd(_, _)
IdentRunEnd(inp, p) ==
    IF p <= Len(inp) /\ inp[p] \in IdentChar THEN IdentRunEnd(inp, p + 1)
    ELSE p

(* at p starts an identifier run [A-Za-z_][A-Za-z0-9_]* followed by "=" *)
IdentEqAt(inp, p) ==
    /\ p <= Len(inp)
    /\ inp[p] \in IdentStart
    /\ IdentRunEnd(inp, p) <= Len(inp)
    /\ inp[IdentRunEnd(inp, p)] = "="

GlobStop == {" ", "\t", "\n", ":", "!"}

(* first index at or after p that holds a character ending a bare glob *)
RECURSIVE GlobRunEnd(_, _)
GlobRunEnd(inp, p) ==
    IF p <= Len(inp) /\ inp[p] \notin GlobStop THEN GlobRunEnd(inp, p + 1)
    ELSE p

(* C5 as stated: a call on a physical line of only spaces/tabs, ended by a *)
(* newline or by end of input, emits neither INDENT nor DEDENT and leaves  *)
(* the scanner state unchanged, whatever the valid set.                    *)
C5_BlankLineTransparent ==
    (last.op = "scan" /\ BlankLineAt(input, last.pos))
        => /\ last.sym \notin {"INDENT", "DEDENT"}
           /\ scanner = last.pre

(* C5 amended: the same, except for the blank line that ends the input     *)
(* while a block is open: there a call at column 0 with DEDENT valid emits *)
(* the closing DEDENT and resets the state.                                *)
C5_BlankLineTransparentButEof ==
    BlankLineAt(input, pos) =>
        \A valid \in SUBSET Kinds :
               IF /\ LineEnd(input, pos) > Len(input)
                  /\ scanner.in_multiline_block
                  /\ "DEDENT" \in valid
                  /\ ColumnOf(input, pos) = 0
               THEN /\ CallAt(valid).sym = "DEDENT"
                    /\ CallAt(valid).scanner = NoBlock
               ELSE /\ CallAt(valid).sym \notin {"INDENT", "DEDENT"}
                    /\ CallAt(valid).scanner = scanner

(* C5 witness: a call with DEDENT valid on a blank line ended by a newline *)
(* inside an open block, which matched nothing and left the block open.    *)
C5_Witness ==
    /\ last.op = "scan" /\ ~last.ret
    /\ last.pre.in_multiline_block
    /\ scanner = last.pre
    /\ BlankLineAt(input, last.pos)
    /\ LineEnd(input, last.pos) <= Len(input)
    /\ LastCallWas({"DEDENT", "INDENT"})

(* C6: with LINE_CONTINUATION valid, a call at a backslash followed by     *)
(* spaces/tabs and a newline emits LINE_CONTINUATION whose span runs from  *)
(* the backslash to the first non-blank character of the following line,   *)
(* where the next call starts.                                             *)
C6_LineContinuationSpan ==
    \A valid \in SUBSET Kinds :
        (/\ "LINE_CONTINUATION" \in valid
         /\ LastCallWas(valid)
         /\ ContinuationAt(input, last.pos))
            => /\ last.ret
               /\ last.sym = "LINE_CONTINUATION"
               /\ last.tokStart = last.pos
               /\ last.tokEnd = ContinuationEnd(input, last.pos)
               /\ pos = ContinuationEnd(input, last.pos)

C8_BareGlobFallback ==
    LET q == BlankRunEnd(input, last.pos) IN
    \A valid \in SUBSET Kinds :
        (/\ {"OPTION_KEY", "BARE_GLOB"} \subseteq valid
         /\ LastCallWas(valid)
         /\ q <= Len(input)
         /\ input[q] \notin GlobStop
         /\ ~IdentEqAt(input, q))
            => /\ last.ret
               /\ IF last.sym \in {"LINE_CONTINUATION", "INDENT", "DEDENT"}
                  THEN last.sym \in valid
                  ELSE /\ last.sym = "BARE_GLOB"
                       /\ last.tokStart = q
                       /\ last.tokEnd = GlobRunEnd(input, q)
                       /\ last.tokEnd > last.tokStart

(* C8 in the calls that do not probe a backslash at the cursor for         *)
(* LINE_CONTINUATION: there BARE_GLOB is emitted with exactly that span,   *)
(* unless an INDENT or DEDENT that is valid too is due at column 0.        *)
C8_BareGlobUnprobed ==
    LET q == BlankRunEnd(input, pos) IN
    (q <= Len(input) /\ input[q] \notin GlobStop /\ ~IdentEqAt(input, q)) =>
        \A valid \in SUBSET Kinds :
            (/\ {"OPTION_KEY", "BARE_GLOB"} \subseteq valid
             /\ ~("LINE_CONTINUATION" \in valid /\ input[pos] = "\\"))
                => /\ CallAt(valid).ret
                   /\ IF CallAt(valid).sym \in {"INDENT", "DEDENT"}
                      THEN /\ CallAt(valid).sym \in valid
                           /\ ColumnOf(input, pos) = 0
                      ELSE /\ CallAt(valid).sym = "BARE_GLOB"
                           /\ CallAt(valid).tokStart = q
                           /\ CallAt(valid).tokEnd = GlobRunEnd(input, q)
                           /\ CallAt(valid).tokEnd > CallAt(valid).tokStart

(* BARE_GLOB emitted for an identifier-shaped prefix and the glob          *)
(* character after it, ending before a colon.                              *)
C8_Witness ==
    /\ last.op = "scan" /\ last.ret /\ last.sym = "BARE_GLOB"
    /\ last.tokEnd = last.tokStart + 2
    /\ input[last.tokStart] = "a"
    /\ input[last.tokStart + 1] = "*"
    /\ pos <= Len(input) /\ input[pos] = ":"
    /\ LastCallWas({"OPTION_KEY", "BARE_GLOB"})

(* C9: on a line that ends in a continuation backslash at b, a call that   *)
(* emits COMMAND_TEXT ends its span at b and leaves the scanner state as   *)
(* it was, and a call at b in that state with LINE_CONTINUATION valid      *)
(* emits LINE_CONTINUATION; when only spaces and tabs lie between the      *)
(* cursor and b, no COMMAND_TEXT is emitted.                               *)
C9_CommandTextStopsAtContinuation ==
    \A b \in pos .. Len(input) :
        (ContinuationAt(input, b) /\ LineEnd(input, pos) > b) =>
            /\ \A valid \in SUBSET Kinds :
                   /\ CallAt(valid).sym = "COMMAND_TEXT"
                        => /\ CallAt(valid).ret
                           /\ CallAt(valid).tokEnd = b
                           /\ CallAt(valid).scanner = scanner
                   /\ BlankRunEnd(input, pos) = b
                        => CallAt(valid).sym # "COMMAND_TEXT"
            /\ \A next \in SUBSET Kinds :
                   "LINE_CONTINUATION" \in next =>
                       tree_sitter_procfile_external_scanner_scan(
                           input, b, scanner, next).sym = "LINE_CONTINUATION"

(* C9 witness: COMMAND_TEXT emitted up to a continuation backslash, at     *)
(* which the next call emits LINE_CONTINUATION.                            *)
C9_Witness ==
    /\ last.op = "scan" /\ last.ret /\ last.sym = "COMMAND_TEXT"
    /\ last.tokEnd > last.tokStart
    /\ pos = last.tokEnd
    /\ ContinuationAt(input, pos)
    /\ CallAt({"LINE_CONTINUATION"}).sym = "LINE_CONTINUATION"
    /\ LastCallWas({"COMMAND_TEXT"})

(* C13: a sub-scanner attempt that fails after reading ahead leaves no     *)
(* trace in the call: a call whose line-continuation probe fails (a        *)
(* backslash not followed by spaces/tabs and a newline) gives the result   *)
(* of the same call without LINE_CONTINUATION valid, and a call whose      *)
(* option-key attempt fails (OPTION_KEY valid without BARE_GLOB, an        *)
(* identifier run that no "=" follows) gives the result of the same call   *)
(* without OPTION_KEY valid.                                               *)
C13_FailedAttemptRewinds ==
    \A valid \in SUBSET Kinds :
        LastCallWas(valid) =>
            /\ (/\ "LINE_CONTINUATION" \in valid
                /\ last.pos <= Len(input)
                /\ input[last.pos] = "\\"
                /\ ~ContinuationAt(input, last.pos))
                   => LastCallWas(valid \ {"LINE_CONTINUATION"})
            /\ LET q == BlankRunEnd(input, last.pos) IN
               (/\ "OPTION_KEY" \in valid
                /\ "BARE_GLOB" \notin valid
                /\ q <= Len(input)
                /\ input[q] \in IdentStart
                /\ ~IdentEqAt(input, q))
                   => LastCallWas(valid \ {"OPTION_KEY"})

(* C14: a call reports no match only if the call with each single valid    *)
(* kind reports no match; with COMMAND_TEXT and MULTILINE_COMMAND_TEXT the  *)
(* valid kinds, on a line whose first non-blank character is a             *)
(* continuation backslash, the call emits MULTILINE_COMMAND_TEXT.          *)
C14_NoMatchOnlyIfAllFail ==
    \A valid \in SUBSET Kinds :
        LastCallWas(valid) =>
            /\ ~last.ret =>
                   \A k \in valid :
                       ~tree_sitter_procfile_external_scanner_scan(
                            input, last.pos, last.pre, {k}).ret
            /\ (/\ valid = {"COMMAND_TEXT", "MULTILINE_COMMAND_TEXT"}
                /\ ContinuationAt(input, BlankRunEnd(input, last.pos)))
                   => last.ret /\ last.sym = "MULTILINE_COMMAND_TEXT"

(* place of a kind in the dispatch order of scan *)
Rank(k) ==
    CASE k = "LINE_CONTINUATION" -> 1
      [] k = "NEWLINE" -> 2
      [] k \in {"DEDENT", "INDENT"} -> 3
      [] k \in {"OPTION_KEY", "BARE_GLOB"} -> 4
      [] k = "COMMAND_TEXT" -> 5
      [] k = "MULTILINE_COMMAND_TEXT" -> 6
      [] OTHER -> 7

(* the valid kinds whose sub-scanner matches at the cursor when it alone   *)
(* is valid                                                                *)
Matching(inp, p, sc, valid) ==
    {k \in valid :
        tree_sitter_procfile_external_scanner_scan(inp, p, sc, {k}).ret}

(* C15: when more than one valid kind would match at the cursor, the call  *)
(* emits a kind that comes first among them in the order                   *)
(* LINE_CONTINUATION, NEWLINE, DEDENT/INDENT, OPTION_KEY/BARE_GLOB,        *)
(* COMMAND_TEXT, MULTILINE_COMMAND_TEXT.                                   *)
C15_FirstInOrderWins ==
    \A valid \in SUBSET Kinds :
        LET M == Matching(input, last.pos, last.pre, valid) IN
        (LastCallWas(valid) /\ Cardinality(M) > 1) =>
            /\ last.ret
            /\ \A k \in M : Rank(last.sym) <= Rank(k)

(* C16: a call that emits neither INDENT nor DEDENT, a call that reports   *)
(* no match included, leaves in_multiline_block and block_indent as they   *)
(* were; a NEWLINE token is exactly the one newline character at the       *)
(* cursor.                                                                 *)
C16_StateFrame ==
    last.op = "scan" =>
        /\ last.sym \notin {"INDENT", "DEDENT"} => scanner = last.pre
        /\ last.sym = "NEWLINE"
               => /\ input[last.pos] = "\n"
                  /\ last.tokStart = last.pos
                  /\ last.tokEnd = last.pos + 1
                  /\ pos = last.pos + 1

(* C16 witness: inside an open block a NEWLINE was emitted for a newline   *)
(* that a space follows; the block is as it was and the next call starts   *)
(* at that space.                                                          *)
C16_Witness ==
    /\ last.op = "scan" /\ last.ret /\ last.sym = "NEWLINE"
    /\ last.pre.in_multiline_block
    /\ scanner = last.pre
    /\ pos = last.pos + 1
    /\ pos <= Len(input) /\ input[pos] = " "
    /\ LastCallWas({"NEWLINE", "DEDENT"})

(* C17: at column 0 with a block open and DEDENT valid, on a line whose    *)
(* first character after w spaces/tabs is neither a newline nor the end of *)
(* input, the call emits DEDENT and resets the state when                  *)
(* w < block_indent; when w >= block_indent it emits no DEDENT and leaves  *)
(* the state as it was.  A LINE_CONTINUATION emitted for the line, which   *)
(* the dispatch order puts first, is allowed for.                          *)
C17_DedentIffLessIndented ==
    \A valid \in SUBSET Kinds :
        LET q == BlankRunEnd(input, last.pos)
            w == q - last.pos
        IN  (/\ "DEDENT" \in valid
             /\ LastCallWas(valid)
             /\ ColumnOf(input, last.pos) = 0
             /\ last.pre.in_multiline_block
             /\ q <= Len(input)
             /\ input[q] # "\n")
                => \/ last.sym = "LINE_CONTINUATION"
                   \/ IF w < last.pre.block_indent
                      THEN /\ last.ret
                           /\ last.sym = "DEDENT"
                           /\ scanner = NoBlock
                      ELSE /\ last.sym # "DEDENT"
                           /\ scanner = last.pre

(* C18: a call that emits INDENT starts at column 0 with no block open and *)
(* INDENT valid, on a line with w > 0 leading spaces/tabs followed by a    *)
(* character that is neither a newline nor the end of input, and it sets   *)
(* in_multiline_block and block_indent = w.  So no INDENT comes from a     *)
(* line with w = 0, from a call made while a block is open, or from a call *)
(* that starts at another column.                                          *)
C18_IndentOnlyFromColumnZero ==
    LET q == BlankRunEnd(input, last.pos)
        w == q - last.pos
    IN  (last.op = "scan" /\ last.sym = "INDENT")
            => /\ last.ret
               /\ ColumnOf(input, last.pos) = 0
               /\ ~last.pre.in_multiline_block
               /\ w > 0
               /\ q <= Len(input)
               /\ input[q] # "\n"
               /\ scanner = [in_multiline_block |-> TRUE, block_indent |-> w]
               /\ \A valid \in SUBSET Kinds :
                      LastCallWas(valid) => "INDENT" \in valid

(* C18 witness: INDENT emitted at column 0 of a line with two leading      *)
(* blanks, opening a block of indent 2; the next call starts at the        *)
(* content of the line.                                                    *)
C18_Witness ==
    /\ last.op = "scan" /\ last.ret /\ last.sym = "INDENT"
    /\ ColumnOf(input, last.pos) = 0
    /\ last.pre = NoBlock
    /\ scanner = [in_multiline_block |-> TRUE, block_indent |-> 2]
    /\ pos = last.pos + 2
    /\ input[pos] = "a"
    /\ LastCallWas({"INDENT", "DEDENT"})

(* C19: in a run of scan calls from the empty state, INDENT and DEDENT     *)
(* alternate beginning with INDENT: the DEDENT count never exceeds the     *)
(* INDENT count, the INDENT count never exceeds the DEDENT count by more   *)
(* than one, and a block is open exactly when an INDENT is the last of the *)
(* two emitted.                                                            *)
C19_IndentDedentAlternate ==
    /\ nDedent <= nIndent
    /\ nIndent <= nDedent + 1
    /\ scanner.in_multiline_block <=> (nIndent = nDedent + 1)

(* C19 witness: the second INDENT of a run, emitted after the first block  *)
(* was closed by a DEDENT.                                                 *)
C19_Witness ==
    /\ last.op = "scan" /\ last.ret /\ last.sym = "INDENT"
    /\ nIndent = 2
    /\ nDedent = 1
    /\ scanner.in_multiline_block

(* C20: a call that returns a match either ends its token past the         *)
(* position where the call started, so that the next call starts further   *)
(* on, or changes the scanner state.                                       *)
C20_MatchMakesProgress ==
    (last.op = "scan" /\ last.ret)
        => \/ pos > last.pos
           \/ scanner # last.pre

============================================================================
